---- MODULE Spec2Model ----
(***************************************************************************)
(* Model of the two scripts of umces_pot_survey_to_dwc:                    *)
(*   build_schema.py   - the Schema Assembler (concatenates fragments)     *)
(*   generate_docs.py  - the Documentation Generator (pages + navigation)  *)
(* A text is a sequence of one-character strings; the two fixed literals   *)
(* the Assembler writes (banner, 'slots:' marker) are single chunks.       *)
(***************************************************************************)
EXTENDS Integers, Sequences, FiniteSets, TLC

VARIABLES
    asmPc,      \* position of build_schema.py
    inFiles,    \* the fragment files the Assembler reads
    outFile,    \* contents of the output file, or NoFile
    todo,       \* remaining iterations of the slot-file loop
    printed,    \* whether 'Schema written to ...' was printed
    genPc,      \* position of generate_filtered_docs
    sv,         \* the schema model SchemaView(schema_path) yields
    slotsOnly,  \* the slots_only argument of the current run
    local,      \* local_slots, local_classes, local_enums
    tree,       \* the output tree: directories and the pages in them
    mkdocs,     \* contents of the sibling mkdocs.yml, or NoConfig
    runs        \* number of runs started

asmVars == <<asmPc, inFiles, outFile, todo, printed>>

genVars == <<genPc, sv, slotsOnly, local, tree, mkdocs, runs>>

vars == <<asmVars, genVars>>

----------------------------------------------------------------------------
(* Generic helpers *)

Range(s) == {s[i] : i \in 1..Len(s)}

SeqsUpTo(S, n) == UNION {[1..k -> S] : k \in 0..n}

InjSeqsUpTo(S, n) == {s \in SeqsUpTo(S, n) : \A i, j \in 1..Len(s) : i # j => s[i] # s[j]}

SubsetsUpTo(S, n) == {T \in SUBSET S : Cardinality(T) <= n}

RECURSIVE Flatten(_)
Flatten(ss) == IF ss = <<>> THEN <<>> ELSE Head(ss) \o Flatten(Tail(ss))

\* Code points of the characters the model uses (Python compares str by code point).
Ord ==
    [c \in {"\n", " ", "-", ".", "A", "B", "C", "E", "_", "a", "b", "c", "e",
            "l", "m", "x", "y"} |->
        CASE c = "\n" -> 10 [] c = " " -> 32 [] c = "-" -> 45 [] c = "." -> 46
          [] c = "A" -> 65 [] c = "B" -> 66 [] c = "C" -> 67 [] c = "E" -> 69
          [] c = "_" -> 95 [] c = "a" -> 97 [] c = "b" -> 98 [] c = "c" -> 99
          [] c = "e" -> 101 [] c = "l" -> 108 [] c = "m" -> 109
          [] c = "x" -> 120 [] c = "y" -> 121]

\* s < t for two strings given as character sequences.
RECURSIVE StrLess(_, _)
StrLess(s, t) ==
    IF t = <<>> THEN FALSE
    ELSE IF s = <<>> THEN TRUE
    ELSE IF Ord[Head(s)] # Ord[Head(t)] THEN Ord[Head(s)] < Ord[Head(t)]
    ELSE StrLess(Tail(s), Tail(t))

----------------------------------------------------------------------------
(* build_schema.py *)

MaxLen == 3         \* longest slot-fragment text of the line family
MaxSlotFiles == 3   \* most files in slots/ of the file family

\* mkdocs.yml does not exist: no generated config has an empty nav
NoConfig == [extra_css |-> {}, nav |-> <<>>]

\* a sentinel no text equals: the file does not exist
NoFile == <<"<no file>">>

NL == <<"\n">>

Indent == <<" ", " ">>

Banner ==
    << "################################################################################\n",
       "# SLOTS - FIELD DEFINITIONS\n",
       "# Here is where we describe the column names from MOB data and conceptually\n",
       "# map them to DwC\n",
       "################################################################################\n",
       "\n" >>

SlotsMarker == <<"slots:\n">>

YamlSuffix == <<".", "y", "a", "m", "l">>

\* Path('slots').glob('*.yaml'): the names that end in .yaml
MatchesGlob(name) ==
    /\ Len(name) >= Len(YamlSuffix)
    /\ SubSeq(name, Len(name) - Len(YamlSuffix) + 1, Len(name)) = YamlSuffix

\* sorted(...): insertion of each element after the elements not greater than it
RECURSIVE InsertPath(_, _)
InsertPath(x, s) ==
    IF s = <<>> THEN <<x>>
    ELSE IF StrLess(x, Head(s)) THEN <<x>> \o s
    ELSE <<Head(s)>> \o InsertPath(x, Tail(s))

RECURSIVE SortedPaths(_)
SortedPaths(S) ==
    IF S = {} THEN <<>>
    ELSE LET x == CHOOSE y \in S : TRUE IN InsertPath(x, SortedPaths(S \ {x}))

\* one order an unsorted glob can yield: the reverse of the sorted one
RECURSIVE Reversed(_)
Reversed(s) == IF s = <<>> THEN <<>> ELSE Reversed(Tail(s)) \o <<Head(s)>>

SlotFilesUnsorted(dir) == Reversed(SortedPaths({n \in DOMAIN dir : MatchesGlob(n)}))

\* sorted(Path('slots').glob('*.yaml'))
SlotFiles(dir) == SortedPaths({n \in DOMAIN dir : MatchesGlob(n)})

\* str.splitlines() for texts whose only line boundary is "\n"
RECURSIVE SplitLines(_)
SplitLines(s) ==
    IF s = <<>> THEN <<>>
    ELSE IF \E i \in 1..Len(s) : s[i] = "\n"
         THEN LET i == CHOOSE k \in 1..Len(s) :
                         s[k] = "\n" /\ \A j \in 1..(k - 1) : s[j] # "\n"
              IN <<SubSeq(s, 1, i - 1)>> \o SplitLines(SubSeq(s, i + 1, Len(s)))
         ELSE <<s>>

\* line.strip(): truthy when a non-whitespace character remains
Strip(line) == \E i \in 1..Len(line) : line[i] \notin {" ", "\n"}

\* every line indented, blank or not
WriteLineAlwaysIndented(line) == Indent \o line \o NL

\* out.write(f'  {line}\n' if line.strip() else '\n')
WriteLine(line) == IF Strip(line) THEN Indent \o line \o NL ELSE NL

\* the body of the loop over one slot file (lines 31-33)
WriteSlotFile(text) ==
    LET lines == SplitLines(text)
    IN Flatten([i \in 1..Len(lines) |-> WriteLine(lines[i])]) \o NL

Chars == {"x", " ", "\n"}

Texts == SeqsUpTo(Chars, MaxLen)

\* names the slots/ directory may hold: three fragments and one other file
SlotFileNames ==
    { <<"a">> \o YamlSuffix, <<"a", "-", "b">> \o YamlSuffix, <<"B">> \o YamlSuffix,
      <<"a", ".", "y", "m", "l">> }

\* fragment texts of the file family
SlotTexts ==
    { <<>>, <<"x">>, <<"x", "\n">>, <<"\n", "x">>, <<" ", "x", "\n", " ">> }

\* contents of the three other_elements/ files, or NoFile when the file is missing
FragTexts == { <<"m">>, <<"e", "\n">>, <<>>, NoFile }

AsmInputs ==
    \* the three fragments vary, slots/ holds one file
    { [metadata |-> m, enums |-> e, classes |-> c,
       slots |-> [n \in {<<"a">> \o YamlSuffix} |-> <<"x", "\n">>]] :
         m \in FragTexts, e \in FragTexts, c \in FragTexts }
    \cup
    \* slots/ holds several files
    UNION { { [metadata |-> <<"m">>, enums |-> <<"e", "\n">>, classes |-> <<"c">>,
               slots |-> f] : f \in [D -> SlotTexts] } :
            D \in SubsetsUpTo(SlotFileNames, MaxSlotFiles) }
    \cup
    \* one slot file with every text up to MaxLen
    { [metadata |-> <<"m">>, enums |-> <<"e", "\n">>, classes |-> <<"c">>,
       slots |-> [n \in {<<"a">> \o YamlSuffix} |-> t]] : t \in Texts }

InitAsm ==
    /\ asmPc = "open"
    /\ inFiles \in AsmInputs
    /\ outFile = NoFile
    /\ todo = <<>>
    /\ printed = FALSE
    \* generate_docs.py is not running
    /\ genPc = "off"
    /\ sv = [slots |-> <<>>, classes |-> <<>>, enums |-> <<>>, types |-> <<>>]
    /\ slotsOnly = FALSE
    /\ local = [slots |-> <<>>, classes |-> <<>>, enums |-> <<>>]
    /\ tree = [dirs |-> {}, files |-> <<>>]
    /\ mkdocs = NoConfig
    /\ runs = 0

\* with open(output, 'w') as out
OpenOutput ==
    /\ asmPc = "open"
    /\ outFile' = <<>>
    /\ asmPc' = "metadata"
    /\ UNCHANGED <<genVars, inFiles, todo, printed>>

\* out.write(Path(...).read_text()); out.write('\n') for one of the three fragments
WriteFragment(at, text, next) ==
    /\ asmPc = at
    /\ text # NoFile
    /\ outFile' = outFile \o text \o NL
    /\ asmPc' = next
    /\ UNCHANGED <<genVars, inFiles, todo, printed>>

\* a missing fragment read as empty text, the script going on
FragmentSubstituted(at, text) ==
    /\ asmPc = at
    /\ text = NoFile
    /\ outFile' = outFile \o NL
    /\ asmPc' = (CASE at = "metadata" -> "enums" [] at = "enums" -> "classes"
                   [] OTHER -> "banner")
    /\ UNCHANGED <<genVars, inFiles, todo, printed>>

\* read_text() of a missing file raises; the with block closes the file and the
\* exception ends the script
FragmentMissing(at, text) ==
    /\ asmPc = at
    /\ text = NoFile
    /\ asmPc' = "error"
    /\ UNCHANGED <<genVars, inFiles, outFile, todo, printed>>

WriteMetadata == WriteFragment("metadata", inFiles.metadata, "enums")

MetadataMissing == FragmentMissing("metadata", inFiles.metadata)

WriteEnums == WriteFragment("enums", inFiles.enums, "classes")

EnumsMissing == FragmentMissing("enums", inFiles.enums)

WriteClasses == WriteFragment("classes", inFiles.classes, "banner")

ClassesMissing == FragmentMissing("classes", inFiles.classes)

\* lines 23-30: the banner, the marker, and the evaluation of sorted(glob)
WriteBanner ==
    /\ asmPc = "banner"
    /\ outFile' = outFile \o Banner \o SlotsMarker
    /\ todo' = SlotFiles(inFiles.slots)
    /\ asmPc' = "slots"
    /\ UNCHANGED <<genVars, inFiles, printed>>

\* one iteration of the for loop
WriteSlot ==
    /\ asmPc = "slots"
    /\ todo # <<>>
    /\ outFile' = outFile \o WriteSlotFile(inFiles.slots[Head(todo)])
    /\ todo' = Tail(todo)
    /\ UNCHANGED <<genVars, asmPc, inFiles, printed>>

\* loop exhausted: the file is closed and the message printed
PrintWritten ==
    /\ asmPc = "slots"
    /\ todo = <<>>
    /\ printed' = TRUE
    /\ asmPc' = "done"
    /\ UNCHANGED <<genVars, inFiles, outFile, todo>>

NextAsm ==
    \/ OpenOutput
    \/ WriteMetadata
    \/ MetadataMissing
    \/ WriteEnums
    \/ EnumsMissing
    \/ WriteClasses
    \/ ClassesMissing
    \/ WriteBanner
    \/ WriteSlot
    \/ PrintWritten

----------------------------------------------------------------------------
(* generate_docs.py *)

MaxElems == 2   \* most elements of one kind in the varied lists of a schema
MaxRuns == 2    \* most Generator runs into the same output tree

None == <<"<none>">>

LocalId == "https://example.org/pot"

OtherId == "https://w3id.org/linkml/types"

\* the element has no from_schema attribute at all
NoAttr == "<no attribute>"

StringType == <<"s", "t", "r", "i", "n", "g">>

\* str.lower() on the characters the model's names use
LowerChar(c) ==
    CASE c = "A" -> "a" [] c = "B" -> "b" [] c = "C" -> "c" [] c = "E" -> "e"
      [] OTHER -> c

Lower(name) == [i \in 1..Len(name) |-> LowerChar(name[i])]

\* sorted(names, key=lower): Python's sort is stable, so each name is placed
\* after every name whose lower-cased form is not greater than its own
RECURSIVE InsertLower(_, _)
InsertLower(x, s) ==
    IF s = <<>> THEN <<x>>
    ELSE IF StrLess(Lower(x), Lower(s[Len(s)]))
         THEN InsertLower(x, SubSeq(s, 1, Len(s) - 1)) \o <<s[Len(s)]>>
         ELSE s \o <<x>>

\* sorted(names): the key left out
RECURSIVE InsertPlain(_, _)
InsertPlain(x, s) ==
    IF s = <<>> THEN <<x>>
    ELSE IF StrLess(x, s[Len(s)])
         THEN InsertPlain(x, SubSeq(s, 1, Len(s) - 1)) \o <<s[Len(s)]>>
         ELSE s \o <<x>>

RECURSIVE CaseSensitiveSort(_)
CaseSensitiveSort(names) ==
    IF names = <<>> THEN <<>>
    ELSE InsertPlain(names[Len(names)],
                     CaseSensitiveSort(SubSeq(names, 1, Len(names) - 1)))

\* case_insensitive_sort(names)
RECURSIVE case_insensitive_sort(_)
case_insensitive_sort(names) ==
    IF names = <<>> THEN <<>>
    ELSE InsertLower(names[Len(names)],
                     case_insensitive_sort(SubSeq(names, 1, Len(names) - 1)))

\* sorted(slots, key=lambda s: s.name.lower()) of render_class_page
RECURSIVE SortedSlots(_)
SortedSlots(slots) ==
    IF slots = <<>> THEN <<>>
    ELSE InsertLower(slots[Len(slots)], SortedSlots(SubSeq(slots, 1, Len(slots) - 1)))

Names(defs) == [i \in 1..Len(defs) |-> defs[i].name]

HasName(defs, n) == \E i \in 1..Len(defs) : defs[i].name = n

Lookup(defs, n) == defs[CHOOSE i \in 1..Len(defs) : defs[i].name = n]

Path(dir, name) == [dir |-> dir, name |-> name]

IndexPath == Path("", <<"index">>)

NoPath == Path("", None)

CssPath == Path("css", <<"custom">>)

Link(dir, name) == [label |-> name, target |-> Path(dir, name)]

\* the comparison without the getattr default
IsLocalNoDefault(x) == x.from_schema = LocalId

\* getattr(x, 'from_schema', local_schema_id) == local_schema_id
IsLocal(x) == (IF x.from_schema = NoAttr THEN LocalId ELSE x.from_schema) = LocalId

\* the three dict comprehensions of lines 25-38
LocalOf(defs) == SelectSeq(defs, IsLocal)

\* slot.range or "string"
RangeOrString(slot) == IF slot.range = None THEN StringType ELSE slot.range

\* lines 110-122 of render_slot_page: the Range cell
RangeDisplay(model, slot) ==
    LET range_val == RangeOrString(slot)
    IN IF HasName(model.enums, range_val)
         THEN [fmt |-> "link", text |-> range_val, to |-> Path("enums", range_val), uri |-> None]
       ELSE IF HasName(model.classes, range_val)
         THEN [fmt |-> "link", text |-> range_val, to |-> Path("classes", range_val), uri |-> None]
       ELSE IF HasName(model.types, range_val)
         THEN IF Lookup(model.types, range_val).uri # None
                THEN [fmt |-> "code", text |-> range_val, to |-> NoPath,
                      uri |-> Lookup(model.types, range_val).uri]
                ELSE [fmt |-> "code", text |-> range_val, to |-> NoPath, uri |-> None]
       ELSE [fmt |-> "plain", text |-> range_val, to |-> NoPath, uri |-> None]

\* lines 177-180: the classes whose class_slots contain the slot
ClassesUsing(model, slot_name) ==
    Names(SelectSeq(model.classes, LAMBDA c : slot_name \in Range(c.slots)))

render_slot_page(model, slot) ==
    [ title |-> slot.name,
      range |-> RangeDisplay(model, slot),
      usedIn |-> LET using == case_insensitive_sort(ClassesUsing(model, slot.name))
                 IN [i \in 1..Len(using) |-> Link("classes", using[i])] ]

\* line 223: sorted(slots, key=lambda s: s.name.lower())
render_class_page(model, cls) ==
    [ title |-> cls.name,
      attributes |-> LET sorted_slots == SortedSlots(cls.slots)
                     IN [i \in 1..Len(sorted_slots) |-> Link("slots", sorted_slots[i])] ]

render_enum_page(model, enum) ==
    [ title |-> enum.name,
      values |-> case_insensitive_sort(enum.pvs) ]

Links(dir, names) == [i \in 1..Len(names) |-> Link(dir, names[i])]

\* the Classes section written whatever slots_only says
render_index_ignoring_slots_only(model, loc, slots_only) ==
    [ title |-> <<"index">>,
      sections |->
        << [heading |-> "Data Dictionary",
            links |-> Links("slots", case_insensitive_sort(Names(loc.slots)))] >>
        \o (IF loc.classes # <<>>
              THEN << [heading |-> "Classes",
                       links |-> Links("classes", case_insensitive_sort(Names(loc.classes)))] >>
              ELSE <<>>)
        \o (IF loc.enums # <<>>
              THEN << [heading |-> "Enumerations",
                       links |-> Links("enums", case_insensitive_sort(Names(loc.enums)))] >>
              ELSE <<>>) ]

render_index(model, loc, slots_only) ==
    [ title |-> <<"index">>,
      sections |->
        << [heading |-> "Data Dictionary",
            links |-> Links("slots", case_insensitive_sort(Names(loc.slots)))] >>
        \o (IF ~slots_only /\ loc.classes # <<>>
              THEN << [heading |-> "Classes",
                       links |-> Links("classes", case_insensitive_sort(Names(loc.classes)))] >>
              ELSE <<>>)
        \o (IF loc.enums # <<>>
              THEN << [heading |-> "Enumerations",
                       links |-> Links("enums", case_insensitive_sort(Names(loc.enums)))] >>
              ELSE <<>>) ]

\* the Enumerations group ahead of the Classes group
generate_mkdocs_config_enums_first(loc, slots_only) ==
    [ extra_css |-> {CssPath},
      nav |->
        << [heading |-> "Home", links |-> << [label |-> <<"index">>, target |-> IndexPath] >>] >>
        \o (IF loc.enums # <<>>
              THEN << [heading |-> "Enumerations",
                       links |-> Links("enums", case_insensitive_sort(Names(loc.enums)))] >>
              ELSE <<>>)
        \o (IF ~slots_only /\ loc.classes # <<>>
              THEN << [heading |-> "Classes",
                       links |-> Links("classes", case_insensitive_sort(Names(loc.classes)))] >>
              ELSE <<>>)
        \o << [heading |-> "Data Dictionary",
               links |-> Links("slots", case_insensitive_sort(Names(loc.slots)))] >> ]

generate_mkdocs_config(loc, slots_only) ==
    [ extra_css |-> {CssPath},
      nav |->
        << [heading |-> "Home", links |-> << [label |-> <<"index">>, target |-> IndexPath] >>] >>
        \o (IF ~slots_only /\ loc.classes # <<>>
              THEN << [heading |-> "Classes",
                       links |-> Links("classes", case_insensitive_sort(Names(loc.classes)))] >>
              ELSE <<>>)
        \o (IF loc.enums # <<>>
              THEN << [heading |-> "Enumerations",
                       links |-> Links("enums", case_insensitive_sort(Names(loc.enums)))] >>
              ELSE <<>>)
        \o << [heading |-> "Data Dictionary",
               links |-> Links("slots", case_insensitive_sort(Names(loc.slots)))] >> ]

\* (dir / f"{name}.md").write_text(content) for every element of a local dict;
\* pages[i] is the rendered page of defs[i]
WritePages(files, dir, defs, pages) ==
    LET new == {Path(dir, defs[i].name) : i \in 1..Len(defs)}
    IN [p \in DOMAIN files \cup new |->
          IF p \in new
            THEN pages[CHOOSE i \in 1..Len(defs) : defs[i].name = p.name]
            ELSE files[p]]

\* create_custom_css(output_dir); nothing in the module calls it
create_custom_css(t) ==
    [dirs |-> t.dirs \cup {"css"},
     files |-> [p \in DOMAIN t.files \cup {CssPath} |->
                  IF p = CssPath THEN [title |-> <<"custom">>] ELSE t.files[p]]]

----------------------------------------------------------------------------
(* The schema models the runs are given *)

ElemNames == { <<"a">>, <<"B">>, <<"b">> }

Origins == {LocalId, OtherId, NoAttr}

\* linkml:types imported: string has a uri, label is a typeof without one
TypesImported ==
    << [name |-> StringType, uri |-> <<"xsd:string">>],
       [name |-> <<"l", "a", "b", "e", "l">>, uri |-> None] >>

RangeNames ==
    { None, <<"E">>, <<"C">>, StringType, <<"l", "a", "b", "e", "l">>, <<"x">> }

SlotDef(n, o, r) == [name |-> n, from_schema |-> o, range |-> r]

ClassDef(n, o, ss) == [name |-> n, from_schema |-> o, slots |-> ss]

EnumDef(n, o, pvs) == [name |-> n, from_schema |-> o, pvs |-> pvs]

\* slots of the root schema and of imported ones, in every dict order
OriginSlots ==
    UNION { { [i \in 1..Len(ns) |-> SlotDef(ns[i], os[i], None)] :
                os \in [1..Len(ns) -> Origins] } :
            ns \in InjSeqsUpTo(ElemNames, MaxElems) }

OriginSchemas ==
    { [ slots |-> ss, classes |-> cs, enums |-> es, types |-> TypesImported ] :
          ss \in OriginSlots,
          cs \in {<<>>} \cup {<<ClassDef(<<"C">>, o, <<<<"a">>>>)>> : o \in Origins},
          es \in {<<>>} \cup {<<EnumDef(<<"E">>, o, <<<<"x">>>>)>> : o \in Origins} }

\* one local slot with every kind of range
RangeSchemas ==
    { [ slots |-> <<SlotDef(<<"a">>, LocalId, r)>>,
        classes |-> cs, enums |-> es, types |-> ts ] :
          r \in RangeNames,
          cs \in {<<>>, <<ClassDef(<<"C">>, LocalId, <<<<"a">>>>)>>},
          es \in {<<>>, <<EnumDef(<<"E">>, LocalId, <<<<"x">>>>)>>},
          ts \in {<<>>, TypesImported} }

\* local elements whose names differ in case, in every dict order
OrderSchemas ==
    { [ slots |-> [i \in 1..Len(o) |-> SlotDef(o[i], LocalId, None)],
        classes |-> [i \in 1..Len(p) |-> ClassDef(p[i], LocalId, o)],
        enums |-> [i \in 1..Len(p) |-> EnumDef(p[i], LocalId, o)],
        types |-> TypesImported ] :
          o \in InjSeqsUpTo(ElemNames, MaxElems),
          p \in InjSeqsUpTo(ElemNames, MaxElems) }

Schemas ==
    OriginSchemas \cup RangeSchemas \cup OrderSchemas

----------------------------------------------------------------------------
(* generate_filtered_docs *)

InitGen ==
    /\ genPc = "idle"
    /\ sv \in Schemas
    /\ slotsOnly = FALSE
    /\ local = [slots |-> <<>>, classes |-> <<>>, enums |-> <<>>]
    /\ tree = [dirs |-> {}, files |-> <<>>]
    /\ mkdocs = NoConfig
    /\ runs = 0
    \* build_schema.py is not running
    /\ asmPc = "off"
    /\ inFiles = [metadata |-> NoFile, enums |-> NoFile, classes |-> NoFile, slots |-> <<>>]
    /\ outFile = NoFile
    /\ todo = <<>>
    /\ printed = FALSE

\* lines 18-42: load the schema, create the output directory, filter
GenFilter ==
    /\ genPc = "idle"
    /\ runs < MaxRuns
    /\ runs' = runs + 1
    /\ \E slots_only \in BOOLEAN : slotsOnly' = slots_only
    /\ tree' = [tree EXCEPT !.dirs = @ \cup {""}]
    /\ local' = [slots |-> LocalOf(sv.slots),
                 classes |-> LocalOf(sv.classes),
                 enums |-> LocalOf(sv.enums)]
    /\ genPc' = "slots"
    /\ UNCHANGED <<asmVars, sv, mkdocs>>

\* lines 44-50
GenSlotPages ==
    /\ genPc = "slots"
    /\ tree' = [dirs |-> tree.dirs \cup {"slots"},
                files |-> WritePages(tree.files, "slots", local.slots,
                                     [i \in 1..Len(local.slots) |->
                                        render_slot_page(sv, local.slots[i])])]
    /\ genPc' = "classes"
    /\ UNCHANGED <<asmVars, sv, slotsOnly, local, mkdocs, runs>>

\* class pages written whatever slots_only says
GenClassPagesAlways ==
    /\ genPc = "classes"
    /\ local.classes # <<>>
    /\ tree' = [dirs |-> tree.dirs \cup {"classes"},
                files |-> WritePages(tree.files, "classes", local.classes,
                                     [i \in 1..Len(local.classes) |->
                                        render_class_page(sv, local.classes[i])])]
    /\ genPc' = "enums"
    /\ UNCHANGED <<asmVars, sv, slotsOnly, local, mkdocs, runs>>

\* lines 52-58
GenClassPages ==
    /\ genPc = "classes"
    /\ ~slotsOnly /\ local.classes # <<>>
    /\ tree' = [dirs |-> tree.dirs \cup {"classes"},
                files |-> WritePages(tree.files, "classes", local.classes,
                                     [i \in 1..Len(local.classes) |->
                                        render_class_page(sv, local.classes[i])])]
    /\ genPc' = "enums"
    /\ UNCHANGED <<asmVars, sv, slotsOnly, local, mkdocs, runs>>

SkipClassPages ==
    /\ genPc = "classes"
    /\ ~(~slotsOnly /\ local.classes # <<>>)
    /\ genPc' = "enums"
    /\ UNCHANGED <<asmVars, sv, slotsOnly, local, tree, mkdocs, runs>>

\* lines 60-66
GenEnumPages ==
    /\ genPc = "enums"
    /\ local.enums # <<>>
    /\ tree' = [dirs |-> tree.dirs \cup {"enums"},
                files |-> WritePages(tree.files, "enums", local.enums,
                                     [i \in 1..Len(local.enums) |->
                                        render_enum_page(sv, local.enums[i])])]
    /\ genPc' = "index"
    /\ UNCHANGED <<asmVars, sv, slotsOnly, local, mkdocs, runs>>

SkipEnumPages ==
    /\ genPc = "enums"
    /\ local.enums = <<>>
    /\ genPc' = "index"
    /\ UNCHANGED <<asmVars, sv, slotsOnly, local, tree, mkdocs, runs>>

\* lines 68-70
GenIndex ==
    /\ genPc = "index"
    /\ tree' = [tree EXCEPT !.files =
                  [p \in DOMAIN tree.files \cup {IndexPath} |->
                     IF p = IndexPath THEN render_index(sv, local, slotsOnly)
                     ELSE tree.files[p]]]
    /\ genPc' = "mkdocs"
    /\ UNCHANGED <<asmVars, sv, slotsOnly, local, mkdocs, runs>>

\* lines 72-77
GenMkdocs ==
    /\ genPc = "mkdocs"
    /\ mkdocs' = generate_mkdocs_config(local, slotsOnly)
    /\ genPc' = "return"
    /\ UNCHANGED <<asmVars, sv, slotsOnly, local, tree, runs>>

\* line 79; the tree stays as it is for the next run
GenReturn ==
    /\ genPc = "return"
    /\ genPc' = "idle"
    /\ UNCHANGED <<asmVars, sv, slotsOnly, local, tree, mkdocs, runs>>

NextGen ==
    \/ GenFilter
    \/ GenSlotPages
    \/ GenClassPages
    \/ SkipClassPages
    \/ GenEnumPages
    \/ SkipEnumPages
    \/ GenIndex
    \/ GenMkdocs
    \/ GenReturn

----------------------------------------------------------------------------
(* The two programs run apart from each other *)

SpecAsm == InitAsm /\ [][NextAsm]_vars

\* the interpreter runs the script to its end or to the exception
SpecAsmFair == InitAsm /\ [][NextAsm]_vars /\ WF_vars(NextAsm)

SpecGen == InitGen /\ [][NextGen]_vars

----------------------------------------------------------------------------
(* Properties of the Schema Assembler *)

Arrangements(S) == {s \in InjSeqsUpTo(S, Cardinality(S)) : Len(s) = Cardinality(S)}

Ascending(ord) == \A i, j \in 1..Len(ord) : i < j => StrLess(ord[i], ord[j])

FieldFragments == {n \in DOMAIN inFiles.slots : MatchesGlob(n)}

Header ==
    inFiles.metadata \o NL \o inFiles.enums \o NL \o inFiles.classes \o NL
      \o Banner \o SlotsMarker

\* C1: a completed run leaves the metadata, enumerations and classes texts, the
\* banner, the 'slots:' marker and then one block per *.yaml file of slots/, the
\* blocks in ascending filename order and none left out.
C1_OutputOrder ==
    asmPc = "done" =>
        \E ord \in Arrangements(FieldFragments) :
            /\ Ascending(ord)
            /\ outFile = Header \o Flatten([i \in 1..Len(ord) |->
                                              WriteSlotFile(inFiles.slots[ord[i]])])

C1_Witness ==
    /\ asmPc = "done"
    /\ Cardinality(FieldFragments) >= 2
    /\ DOMAIN inFiles.slots # FieldFragments
    /\ \E n \in FieldFragments : inFiles.slots[n] # <<>>

IsBlank(line) == \A i \in 1..Len(line) : line[i] = " "

Terminated(text) ==
    IF text = <<>> \/ text[Len(text)] = "\n" THEN text ELSE text \o NL

\* the lines of a text: newline-free pieces that, each ended by a newline, give
\* the text back
IsLinesOf(ls, text) ==
    /\ \A i \in 1..Len(ls) : "\n" \notin Range(ls[i])
    /\ Flatten([i \in 1..Len(ls) |-> ls[i] \o NL]) = Terminated(text)

ExpectedBlock(ls) ==
    Flatten([i \in 1..Len(ls) |->
               IF IsBlank(ls[i]) THEN <<"\n">> ELSE <<" ", " ">> \o ls[i] \o <<"\n">>])
      \o <<"\n">>

\* C2: what follows the marker is, for each slot file handled so far, its lines
\* in their order, a non-blank line behind exactly two spaces, a blank line as an
\* empty line, and one more empty line after the last line of the file.
C2_IndentedLines ==
    asmPc \in {"slots", "done"} =>
        LET handled == FieldFragments \ Range(todo)
            body == SubSeq(outFile, Len(Header) + 1, Len(outFile))
        IN \E ord \in Arrangements(handled) :
              /\ \A i \in 1..Len(ord) :
                    IsLinesOf(SplitLines(inFiles.slots[ord[i]]), inFiles.slots[ord[i]])
              /\ body = Flatten([i \in 1..Len(ord) |->
                                   ExpectedBlock(SplitLines(inFiles.slots[ord[i]]))])

C2_Witness ==
    /\ asmPc = "done"
    /\ \E n \in FieldFragments :
          LET ls == SplitLines(inFiles.slots[n])
          IN \E i, j \in 1..Len(ls) : i < j /\ IsBlank(ls[i]) /\ ~IsBlank(ls[j])

AnyMissing == NoFile \in {inFiles.metadata, inFiles.enums, inFiles.classes}

\* what the output file may hold when a fragment is missing: the fragments
\* before the first missing one, nothing after
AllowedPartial ==
    {NoFile, <<>>}
      \cup (IF inFiles.metadata # NoFile THEN {inFiles.metadata \o NL} ELSE {})
      \cup (IF inFiles.metadata # NoFile /\ inFiles.enums # NoFile
             THEN {inFiles.metadata \o NL \o inFiles.enums \o NL} ELSE {})

\* C8: with a fragment missing the run never completes and never prints
\* 'Schema written', the output never goes past the missing fragment, and the
\* run ends in the error.
C8_MissingIsFatal ==
    /\ [](AnyMissing =>
            /\ asmPc \in {"open", "metadata", "enums", "classes", "error"}
            /\ ~printed
            /\ outFile \in AllowedPartial)
    /\ (AnyMissing ~> asmPc = "error")

C8_Witness ==
    /\ asmPc = "error"
    /\ inFiles.metadata # NoFile
    /\ inFiles.enums = NoFile
    /\ inFiles.classes # NoFile
    /\ outFile = inFiles.metadata \o NL

----------------------------------------------------------------------------
(* Properties of the Documentation Generator *)

CountsAsLocal(d) == d.from_schema \in {LocalId, NoAttr}

LocalNames(defs) == {d.name : d \in {e \in Range(defs) : CountsAsLocal(e)}}

PagesIn(dir) == {p \in DOMAIN tree.files : p.dir = dir}

PageNames(dir) == {p.name : p \in PagesIn(dir)}

\* C3: the local sets hold exactly the elements whose origin is the root schema's
\* id or that record no origin, and no page is ever written for another element.
C3_LocalSets ==
    /\ runs > 0 =>
         /\ {d.name : d \in Range(local.slots)} = LocalNames(sv.slots)
         /\ {d.name : d \in Range(local.classes)} = LocalNames(sv.classes)
         /\ {d.name : d \in Range(local.enums)} = LocalNames(sv.enums)
    /\ PageNames("slots") \subseteq LocalNames(sv.slots)
    /\ PageNames("classes") \subseteq LocalNames(sv.classes)
    /\ PageNames("enums") \subseteq LocalNames(sv.enums)

C3_Witness ==
    /\ genPc = "return"
    /\ \E d \in Range(sv.slots) : d.from_schema = OtherId
    /\ \E d \in Range(sv.slots) : d.from_schema = NoAttr /\ Path("slots", d.name) \in DOMAIN tree.files
    /\ \E d \in Range(sv.classes) : d.from_schema = OtherId

Headings(sections) == [i \in 1..Len(sections) |-> sections[i].heading]

HasGroup(sections, h) == \E i \in 1..Len(sections) : sections[i].heading = h

Group(sections, h) == sections[CHOOSE i \in 1..Len(sections) : sections[i].heading = h]

SlotsOnlyOutcome ==
    /\ ~HasGroup(mkdocs.nav, "Classes")
    /\ PageNames("slots") = LocalNames(sv.slots)
    /\ IndexPath \in DOMAIN tree.files
    /\ HasGroup(tree.files[IndexPath].sections, "Data Dictionary")
    /\ HasGroup(mkdocs.nav, "Data Dictionary")

SlotsOnlyDone == genPc = "return" /\ slotsOnly /\ LocalNames(sv.classes) # {}

ClassTree ==
    [made |-> "classes" \in tree.dirs,
     pages |-> [p \in PagesIn("classes") |-> tree.files[p]]]

\* C4 as stated: after a slots_only run on a schema with local classes the tree
\* has no classes/ directory and no class page, the navigation no Classes group,
\* and the slot pages, the data dictionary and its navigation group are there.
C4_NoClassesDir ==
    SlotsOnlyDone =>
        /\ "classes" \notin tree.dirs
        /\ PagesIn("classes") = {}
        /\ SlotsOnlyOutcome

\* C4 amended: a slots_only run creates no classes/ directory and writes no
\* class page (what an earlier run left there stays), the navigation has no
\* Classes group, and the slot pages, the data dictionary and its navigation
\* group are produced.
C4_SlotsOnlyRun ==
    /\ [](SlotsOnlyDone => SlotsOnlyOutcome)
    /\ [][slotsOnly' => ClassTree' = ClassTree]_vars

C4_Witness ==
    /\ SlotsOnlyDone
    /\ "classes" \notin tree.dirs
    /\ PagesIn("slots") # {}

\* C5: a completed run leaves index.md, a page per local slot, per local class
\* (when class pages are enabled) and per local enumeration, mkdocs.yml, and the
\* stylesheet mkdocs.yml names under extra_css.
C5_OutputTree ==
    genPc = "return" =>
        /\ IndexPath \in DOMAIN tree.files
        /\ LocalNames(sv.slots) \subseteq PageNames("slots")
        /\ ~slotsOnly => LocalNames(sv.classes) \subseteq PageNames("classes")
        /\ LocalNames(sv.enums) \subseteq PageNames("enums")
        /\ mkdocs # NoConfig
        /\ mkdocs.extra_css = {CssPath}
        /\ CssPath \in DOMAIN tree.files

LinksCover(links, dir, names) ==
    /\ Len(links) = Cardinality(names)
    /\ {links[i] : i \in 1..Len(links)} = {[label |-> n, target |-> Path(dir, n)] : n \in names}

\* C6: the navigation lists Home, Classes, Enumerations, Data Dictionary in that
\* order, Classes exactly when slots_only is off and a local class exists,
\* Enumerations exactly when a local enumeration exists, and every group lists
\* each local element of its kind once.
C6_NavOrder ==
    genPc = "return" =>
        LET nav == mkdocs.nav
            withClasses == ~slotsOnly /\ LocalNames(sv.classes) # {}
            withEnums == LocalNames(sv.enums) # {}
        IN /\ Headings(nav) =
                <<"Home">> \o (IF withClasses THEN <<"Classes">> ELSE <<>>)
                  \o (IF withEnums THEN <<"Enumerations">> ELSE <<>>)
                  \o <<"Data Dictionary">>
           /\ Group(nav, "Home").links = << [label |-> <<"index">>, target |-> IndexPath] >>
           /\ withClasses =>
                LinksCover(Group(nav, "Classes").links, "classes", LocalNames(sv.classes))
           /\ withEnums =>
                LinksCover(Group(nav, "Enumerations").links, "enums", LocalNames(sv.enums))
           /\ LinksCover(Group(nav, "Data Dictionary").links, "slots", LocalNames(sv.slots))

C6_Witness ==
    /\ genPc = "return"
    /\ Headings(mkdocs.nav) = <<"Home", "Classes", "Enumerations", "Data Dictionary">>
    /\ Len(Group(mkdocs.nav, "Classes").links) >= 2

DeclaredRange(slot) == IF slot.range = None THEN StringType ELSE slot.range

\* C7: the Range cell of a field page is a link when the range names an
\* enumeration or class, inline code with the uri when it names a type that has
\* one, and inline code of the range as given in every other case.
C7_RangeCell ==
    \A p \in PagesIn("slots") :
        LET r == DeclaredRange(Lookup(sv.slots, p.name))
            cell == tree.files[p].range
        IN IF HasName(sv.enums, r)
             THEN cell.fmt = "link" /\ cell.to = Path("enums", r)
           ELSE IF HasName(sv.classes, r)
             THEN cell.fmt = "link" /\ cell.to = Path("classes", r)
           ELSE IF HasName(sv.types, r) /\ Lookup(sv.types, r).uri # None
             THEN cell.fmt = "code" /\ cell.text = r /\ cell.uri = Lookup(sv.types, r).uri
           ELSE cell.fmt = "code" /\ cell.text = r /\ cell.uri = None

Position(s, x) == CHOOSE i \in 1..Len(s) : s[i] = x

\* out holds the names of in, ascending by lower-cased name, names with the same
\* lower-cased form in the order they have in in
IsStableSort(out, in) ==
    /\ Len(out) = Len(in)
    /\ Range(out) = Range(in)
    /\ \A i, j \in 1..Len(out) :
         i < j =>
           /\ ~StrLess(Lower(out[j]), Lower(out[i]))
           /\ Lower(out[i]) = Lower(out[j]) => Position(in, out[i]) < Position(in, out[j])

Labels(links) == [i \in 1..Len(links) |-> links[i].label]

SortedGroup(sections, h, in) ==
    HasGroup(sections, h) => IsStableSort(Labels(Group(sections, h).links), in)

\* C9: every list of names on a page, on the index and in the navigation is its
\* input in ascending order of the lower-cased name, equal lower-cased names in
\* their original order.
C9_SortedLists ==
    /\ \A p \in PagesIn("slots") :
         IsStableSort(Labels(tree.files[p].usedIn),
                      Names(SelectSeq(sv.classes, LAMBDA c : p.name \in Range(c.slots))))
    /\ \A p \in PagesIn("classes") :
         IsStableSort(Labels(tree.files[p].attributes), Lookup(sv.classes, p.name).slots)
    /\ \A p \in PagesIn("enums") :
         IsStableSort(tree.files[p].values, Lookup(sv.enums, p.name).pvs)
    /\ IndexPath \in DOMAIN tree.files =>
         LET sections == tree.files[IndexPath].sections
         IN /\ SortedGroup(sections, "Data Dictionary", Names(local.slots))
            /\ SortedGroup(sections, "Classes", Names(local.classes))
            /\ SortedGroup(sections, "Enumerations", Names(local.enums))
    /\ mkdocs # NoConfig =>
         /\ SortedGroup(mkdocs.nav, "Data Dictionary", Names(local.slots))
         /\ SortedGroup(mkdocs.nav, "Classes", Names(local.classes))
         /\ SortedGroup(mkdocs.nav, "Enumerations", Names(local.enums))

C9_Witness ==
    /\ genPc = "return"
    /\ Names(local.slots) = << <<"b">>, <<"B">> >>
    /\ Names(local.classes) = << <<"b">>, <<"a">> >>
    /\ HasGroup(mkdocs.nav, "Classes")
    /\ Path("enums", <<"b">>) \in DOMAIN tree.files

Targets(sections) ==
    UNION { {sections[i].links[k].target : k \in 1..Len(sections[i].links)} :
            i \in 1..Len(sections) }

ElementPages == PagesIn("slots") \cup PagesIn("classes") \cup PagesIn("enums")

\* C10: after a run into an empty tree the pages the navigation names are the
\* element pages written plus index.md, and the pages the index links to are the
\* element pages written.
C10_LinksMatchPages ==
    (genPc = "return" /\ runs = 1) =>
        /\ Targets(mkdocs.nav) = ElementPages \cup {IndexPath}
        /\ Targets(tree.files[IndexPath].sections) = ElementPages

C10_Witness ==
    /\ genPc = "return"
    /\ runs = 1
    /\ slotsOnly
    /\ local.classes # <<>>
    /\ PagesIn("enums") # {}
    /\ PagesIn("slots") # {}

====
